---- MODULE Spec2Model ----
(***************************************************************************)
(* A model of src/network.py: the envelope codec (NetworkEnvelope), the    *)
(* message classes, and the peer connection (SimpleNode) with its          *)
(* handshake, wait_for dispatch loop and header synchronisation loop.      *)
(*                                                                         *)
(* A byte string is a sequence of cells, each cell one byte (0..255).      *)
(* Inside a headers payload one cell stands for one 80-byte block header   *)
(* (Block.parse consumes it as a unit and Block.hash identifies it), so    *)
(* such a cell holds the header's number instead of a byte.                *)
(***************************************************************************)
EXTENDS Integers, Sequences, FiniteSets, Bags, TLC

(***************************************************************************)
(* Bounds of the model.                                                    *)
(***************************************************************************)
\* Frames the peer delivers on one connection (one per read()).
MaxReads == 2
\* Calls the application makes on one connection.
MaxCalls == 2
\* Size of the peer's final, partial headers batch.
ShortBatch == 1500
\* Longest payload framed in the codec specification.
MaxPayloadLen == 2

(***************************************************************************)
(* Byte-string helpers (helpers.py is imported, not part of network.py).   *)
(***************************************************************************)
Min(a, b) == IF a < b THEN a ELSE b

\* s.read(n) at offset pos (1-based): up to n cells, fewer at end of stream.
StreamRead(s, pos, n) == SubSeq(s, pos, Min(pos + n - 1, Len(s)))

\* n * b'\x00'; a negative n yields the empty string, as in Python.
Zeros(n) == [i \in 1..n |-> 0]

\* b[::-1]
Reversed(b) == [i \in 1..Len(b) |-> b[Len(b) + 1 - i]]

RECURSIVE int_to_little_endian(_, _)
int_to_little_endian(n, length) ==
    IF length <= 0 THEN <<>>
    ELSE <<n % 256>> \o int_to_little_endian(n \div 256, length - 1)

RECURSIVE little_endian_to_int(_)
little_endian_to_int(b) ==
    IF b = <<>> THEN 0
    ELSE b[1] + 256 * little_endian_to_int(Tail(b))

\* int.to_bytes(2, 'big')
to_bytes_big2(n) == <<(n \div 256) % 256, n % 256>>

\* encode_varint(i)
encode_varint(i) ==
    IF i < 253 THEN <<i>>
    ELSE IF i < 65536 THEN <<253>> \o int_to_little_endian(i, 2)
    ELSE <<254>> \o int_to_little_endian(i, 4)

\* read_varint(s) at offset pos: [value, next offset].
read_varint(s, pos) ==
    LET i == s[pos] IN
    IF i = 253 THEN [value |-> little_endian_to_int(StreamRead(s, pos + 1, 2)), next |-> pos + 3]
    ELSE IF i = 254 THEN [value |-> little_endian_to_int(StreamRead(s, pos + 1, 4)), next |-> pos + 5]
    ELSE IF i = 255 THEN [value |-> little_endian_to_int(StreamRead(s, pos + 1, 8)), next |-> pos + 9]
    ELSE [value |-> i, next |-> pos + 1]

(***************************************************************************)
(* hash256 is the double hash of helpers.py.  The model keeps what the     *)
(* envelope relies on: a deterministic 32-byte digest that changes in its  *)
(* first four bytes whenever one cell of the input changes.  The digest is *)
(* the number of cells plus their sum (the cells shifted by one form a     *)
(* bag, whose cardinality is that number), written little-endian.          *)
(***************************************************************************)
CellSum(b) == BagCardinality([i \in 1..Len(b) |-> b[i] + 1])

hash256(b) == int_to_little_endian(CellSum(b), 4) \o Zeros(28)

(***************************************************************************)
(* Network magic and the envelope codec.                                   *)
(***************************************************************************)
NETWORK_MAGIC == <<249, 190, 180, 217>>
TESTNET_NETWORK_MAGIC == <<11, 17, 9, 7>>

\* NetworkEnvelope.__init__
NetworkEnvelope(command, payload, testnet) ==
    [command |-> command,
     payload |-> payload,
     magic   |-> IF testnet THEN TESTNET_NETWORK_MAGIC ELSE NETWORK_MAGIC]

\* str.rstrip('\x00') on the decoded command field.
RECURSIVE rstrip_nul(_)
rstrip_nul(b) ==
    IF b = <<>> THEN <<>>
    ELSE IF b[Len(b)] = 0 THEN rstrip_nul(SubSeq(b, 1, Len(b) - 1))
    ELSE b

\* bytes.decode('utf-8') succeeds on well-formed UTF-8 only: an ASCII byte,
\* or a lead byte followed by its continuation bytes (0x80..0xbf).
Utf8Continuation(b, i) == i <= Len(b) /\ b[i] >= 128 /\ b[i] < 192

RECURSIVE Utf8From(_, _)
Utf8From(b, i) ==
    IF i > Len(b) THEN TRUE
    ELSE IF b[i] < 128 THEN Utf8From(b, i + 1)
    ELSE IF b[i] >= 194 /\ b[i] < 224
         THEN Utf8Continuation(b, i + 1) /\ Utf8From(b, i + 2)
    ELSE IF b[i] >= 224 /\ b[i] < 240
         THEN Utf8Continuation(b, i + 1) /\ Utf8Continuation(b, i + 2)
              /\ Utf8From(b, i + 3)
    ELSE IF b[i] >= 240 /\ b[i] < 245
         THEN Utf8Continuation(b, i + 1) /\ Utf8Continuation(b, i + 2)
              /\ Utf8Continuation(b, i + 3) /\ Utf8From(b, i + 4)
    ELSE FALSE

Utf8Decodable(b) == Utf8From(b, 1)

NoEnvelope == [command |-> <<>>, payload |-> <<>>, magic |-> <<>>]

\* The outcomes of NetworkEnvelope.parse: an envelope, or the error raised.
ParseOk(env, used) == [error |-> "none", envelope |-> env, consumed |-> used]
ParseError(msg, used) == [error |-> msg, envelope |-> NoEnvelope, consumed |-> used]

\* NetworkEnvelope.parse with the checksum verification left out.
NetworkEnvelope_parse_NoChecksum(s, testnet) ==
    LET magic == StreamRead(s, 1, 4)
        expected_magic == IF testnet THEN TESTNET_NETWORK_MAGIC ELSE NETWORK_MAGIC
        cmd == StreamRead(s, 5, 12)
        p_length == little_endian_to_int(StreamRead(s, 17, 4))
        payload == StreamRead(s, 25, p_length)
    IN  IF magic = <<>> THEN ParseError("Connection reset!", 0)
        ELSE IF magic # expected_magic THEN ParseError("magic is not right", Len(magic))
        ELSE IF ~Utf8Decodable(cmd) THEN ParseError("UnicodeDecodeError", 4 + Len(cmd))
        ELSE ParseOk(NetworkEnvelope(rstrip_nul(cmd), payload, FALSE),
                     Min(Len(s), 24 + Len(payload)))

\* NetworkEnvelope.parse that accepts either network's magic.
NetworkEnvelope_parse_AnyMagic(s, testnet) ==
    LET magic == StreamRead(s, 1, 4)
        cmd == StreamRead(s, 5, 12)
        p_length == little_endian_to_int(StreamRead(s, 17, 4))
        checksum == StreamRead(s, 21, 4)
        payload == StreamRead(s, 25, p_length)
    IN  IF magic = <<>> THEN ParseError("Connection reset!", 0)
        ELSE IF magic \notin {TESTNET_NETWORK_MAGIC, NETWORK_MAGIC}
             THEN ParseError("magic is not right", Len(magic))
        ELSE IF ~Utf8Decodable(cmd) THEN ParseError("UnicodeDecodeError", 4 + Len(cmd))
        ELSE IF SubSeq(hash256(payload), 1, 4) # checksum
             THEN ParseError("Bad Checksum!", Min(Len(s), 24 + Len(payload)))
        ELSE ParseOk(NetworkEnvelope(rstrip_nul(cmd), payload, FALSE),
                     Min(Len(s), 24 + Len(payload)))

\* NetworkEnvelope.parse(s, testnet): s is the unread part of the stream.
NetworkEnvelope_parse(s, testnet) ==
    LET magic == StreamRead(s, 1, 4)
        expected_magic == IF testnet THEN TESTNET_NETWORK_MAGIC ELSE NETWORK_MAGIC
        cmd == StreamRead(s, 5, 12)
        p_length == little_endian_to_int(StreamRead(s, 17, 4))
        checksum == StreamRead(s, 21, 4)
        payload == StreamRead(s, 25, p_length)
    IN  IF magic = <<>> THEN ParseError("Connection reset!", 0)
        ELSE IF magic # expected_magic THEN ParseError("magic is not right", Len(magic))
        ELSE IF ~Utf8Decodable(cmd) THEN ParseError("UnicodeDecodeError", 4 + Len(cmd))
        ELSE IF SubSeq(hash256(payload), 1, 4) # checksum
             THEN ParseError("Bad Checksum!", Min(Len(s), 24 + Len(payload)))
        ELSE ParseOk(NetworkEnvelope(rstrip_nul(cmd), payload, FALSE),
                     Min(Len(s), 24 + Len(payload)))

\* NetworkEnvelope.serialize padding the command with spaces.
NetworkEnvelope_serialize_PadSpace(env) ==
    env.magic
        \o env.command \o [i \in 1..(12 - Len(env.command)) |-> 32]
        \o int_to_little_endian(Len(env.payload), 4)
        \o SubSeq(hash256(env.payload), 1, 4)
        \o env.payload

\* NetworkEnvelope.serialize
NetworkEnvelope_serialize(env) ==
    env.magic
        \o env.command \o Zeros(12 - Len(env.command))
        \o int_to_little_endian(Len(env.payload), 4)
        \o SubSeq(hash256(env.payload), 1, 4)
        \o env.payload

(***************************************************************************)
(* The message classes.  A message is a record whose cls field names its   *)
(* class; command(cls) is the class attribute `command`.                   *)
(***************************************************************************)
CmdVersion    == <<118, 101, 114, 115, 105, 111, 110>>
CmdVerAck     == <<118, 101, 114, 97, 99, 107>>
CmdPing       == <<112, 105, 110, 103>>
CmdPong       == <<112, 111, 110, 103>>
CmdGetAddr    == <<103, 101, 116, 97, 100, 100, 114>>
CmdAddr       == <<97, 100, 100, 114>>
CmdGetHeaders == <<103, 101, 116, 104, 101, 97, 100, 101, 114, 115>>
CmdHeaders    == <<104, 101, 97, 100, 101, 114, 115>>
CmdFeefilter  == <<102, 101, 101, 102, 105, 108, 116, 101, 114>>
CmdSendCmpct  == <<115, 101, 110, 100, 99, 109, 112, 99, 116>>

command(cls) ==
    CASE cls = "VersionMessage"    -> CmdVersion
      [] cls = "VerAckMessage"     -> CmdVerAck
      [] cls = "PingMessage"       -> CmdPing
      [] cls = "PongMessage"       -> CmdPong
      [] cls = "GetAddressMessage" -> CmdGetAddr
      [] cls = "AddressMessage"    -> CmdAddr
      [] cls = "GetHeadersMessage" -> CmdGetHeaders
      [] cls = "HeadersMessage"    -> CmdHeaders
      [] cls = "FeefilterMessage"  -> CmdFeefilter

\* The per-response cap of the peer, the modulus of the header-sync loop.
HeadersCap == 2000

\* Python's None where a byte string or a message is expected.
None == <<-1>>

\* The outcomes of a decoder: a message, or the exception raised.
Decoded(m) == [error |-> "none", message |-> m]
DecodeError(e) == [error |-> e, message |-> [cls |-> "None"]]

\* VersionMessage.__init__ with its defaults; now is int(time.time()).
VersionMessage(now) ==
    [cls |-> "VersionMessage", version |-> 70015, services |-> 0,
     timestamp |-> now, receiver_services |-> 0,
     receiver_ip |-> Zeros(4), receiver_port |-> 18333,
     sender_services |-> 0,
     sender_ip |-> Zeros(4), sender_port |-> 18333,
     nonce |-> int_to_little_endian(0, 8), user_agent |-> <<>>,
     latest_block |-> 0, relay |-> FALSE]

\* VersionMessage.serialize
VersionMessage_serialize(m) ==
    LET ipv4 == Zeros(10) \o <<255, 255>>
    IN  int_to_little_endian(m.version, 4)
        \o int_to_little_endian(m.services, 8)
        \o int_to_little_endian(m.timestamp, 8)
        \o int_to_little_endian(m.receiver_services, 8)
        \o ipv4 \o m.receiver_ip
        \o to_bytes_big2(m.receiver_port)
        \o int_to_little_endian(m.sender_services, 8)
        \o ipv4 \o m.sender_ip
        \o to_bytes_big2(m.sender_port)
        \o m.nonce \o Zeros(8 - Len(m.nonce))
        \o encode_varint(Len(m.user_agent))
        \o m.user_agent
        \o int_to_little_endian(m.latest_block, 4)
        \o (IF m.relay THEN <<120, 1>> ELSE <<0>>)

\* VersionMessage.parse
VersionMessage_parse(s) ==
    LET ua == read_varint(s, 81)
        after == ua.next + ua.value
    IN  IF Len(s) < 81 THEN DecodeError("IndexError")
        ELSE Decoded(
          [cls |-> "VersionMessage",
           version |-> little_endian_to_int(StreamRead(s, 1, 4)),
           services |-> little_endian_to_int(StreamRead(s, 5, 8)),
           timestamp |-> little_endian_to_int(StreamRead(s, 13, 8)),
           receiver_services |-> little_endian_to_int(StreamRead(s, 21, 8)),
           receiver_ip |-> StreamRead(s, 29, 16),
           receiver_port |-> StreamRead(s, 45, 2),
           sender_services |-> little_endian_to_int(StreamRead(s, 47, 8)),
           sender_ip |-> StreamRead(s, 55, 16),
           sender_port |-> StreamRead(s, 71, 2),
           nonce |-> StreamRead(s, 73, 8),
           user_agent |-> StreamRead(s, ua.next, ua.value),
           latest_block |-> little_endian_to_int(StreamRead(s, after, 4)),
           relay |-> (StreamRead(s, after + 4, 1) = <<1>>)])

\* VerAckMessage
VerAckMessage == [cls |-> "VerAckMessage"]
VerAckMessage_serialize(m) == <<>>
VerAckMessage_parse(s) == Decoded(VerAckMessage)

\* PingMessage
PingMessage(nonce) == [cls |-> "PingMessage", nonce |-> nonce]
PingMessage_parse(s) == Decoded(PingMessage(StreamRead(s, 1, 8)))
PingMessage_serialize(m) == m.nonce

\* PongMessage: parse is declared without @classmethod, so the call
\* PongMessage.parse(stream) made by wait_for lacks an argument.
PongMessage(nonce) == [cls |-> "PongMessage", nonce |-> nonce]
PongMessage_parse(s) == DecodeError("TypeError")
PongMessage_serialize(m) == m.nonce

\* GetAddressMessage
GetAddressMessage == [cls |-> "GetAddressMessage"]
GetAddressMessage_parse(s) == Decoded(GetAddressMessage)
GetAddressMessage_serialize(m) == <<>>

\* NetAddress.parse at offset pos (30 bytes).
NetAddress_parse(s, pos) ==
    [time |-> little_endian_to_int(StreamRead(s, pos, 4)),
     services |-> little_endian_to_int(StreamRead(s, pos + 4, 8)),
     ipv |-> StreamRead(s, pos + 12, 16),
     port |-> StreamRead(s, pos + 28, 2)]

\* AddressMessage.parse
AddressMessage_parse(s) ==
    IF s = <<>> THEN DecodeError("IndexError")
    ELSE LET c == read_varint(s, 1)
         IN  Decoded([cls |-> "AddressMessage", count |-> c.value,
                      addr_list |-> [i \in 1..c.value |->
                                      NetAddress_parse(s, c.next + 30 * (i - 1))]])

\* Block.hash() of block.py: the 32-byte identifying hash of a header.
BlockHash(h) == int_to_little_endian(h, 4) \o Zeros(28)

\* GetHeadersMessage.__init__ (a start block is always given here).
GetHeadersMessage(start_block, end_block) ==
    [cls |-> "GetHeadersMessage", version |-> 70015, num_hashes |-> 1,
     start_block |-> start_block,
     end_block |-> IF end_block = <<>> THEN Zeros(32) ELSE end_block]

\* GetHeadersMessage.serialize
GetHeadersMessage_serialize(m) ==
    int_to_little_endian(m.version, 4)
        \o encode_varint(m.num_hashes)
        \o Reversed(m.start_block)
        \o Reversed(m.end_block)

\* HeadersMessage.parse: each header cell is followed by its varint
\* transaction count, which must be 0.
HeadersMessage_parse(s) ==
    IF s = <<>> THEN DecodeError("IndexError")
    ELSE LET n == read_varint(s, 1)
             blocks == [i \in 1..n.value |-> s[n.next + 2 * (i - 1)]]
         IN  IF Len(s) < n.next - 1 + 2 * n.value THEN DecodeError("IndexError")
             ELSE IF \E i \in 1..n.value : s[n.next + 2 * (i - 1) + 1] # 0
                  THEN DecodeError("number of txs not 0")
             ELSE Decoded([cls |-> "HeadersMessage", blocks |-> blocks])

\* FeefilterMessage.parse
FeefilterMessage_parse(s) ==
    Decoded([cls |-> "FeefilterMessage",
             fee |-> little_endian_to_int(StreamRead(s, 1, 8))])

\* CmpctMessage.parse
CmpctMessage_parse(s) ==
    Decoded([cls |-> "CmpctMessage",
             announce |-> little_endian_to_int(StreamRead(s, 1, 1)),
             version |-> little_endian_to_int(StreamRead(s, 2, 8))])

\* MempoolMessage
MempoolMessage == [cls |-> "MempoolMessage"]
MempoolMessage_serialize(m) == <<>>

\* GetDataMessage: data is the list of (data_type, identifier) pairs.
GetDataMessage(data) == [cls |-> "GetDataMessage", data |-> data]

RECURSIVE GetDataItems(_)
GetDataItems(data) ==
    IF data = <<>> THEN <<>>
    ELSE int_to_little_endian(data[1][1], 4) \o Reversed(data[1][2])
           \o GetDataItems(Tail(data))

GetDataMessage_serialize(m) == encode_varint(Len(m.data)) \o GetDataItems(m.data)

\* InventoryVector.parse at offset pos (36 bytes); obj_hash is the
\* identifier in display order (the hex string of the reversed bytes).
InventoryVector_parse(s, pos) ==
    [obj_type |-> little_endian_to_int(StreamRead(s, pos, 4)),
     obj_hash |-> Reversed(StreamRead(s, pos + 4, 32))]

\* InventoryVector.type_lookup, called by __repr__ only.
type_lookup(v) ==
    CASE v.obj_type = 0 -> "ERROR"
      [] v.obj_type = 1 -> "MSG_TX"
      [] v.obj_type = 2 -> "MSG_BLOCK"
      [] v.obj_type = 3 -> "MSG_FILTERED_BLOCK"
      [] v.obj_type = 4 -> "MSG_CMPCT_BLOCK"
      [] v.obj_type = 1073741825 -> "MSG_WITNESS_TX"
      [] v.obj_type = 1073741826 -> "MSG_WITNESS_BLOCK"
      [] v.obj_type = 1073741827 -> "MSG_FILTERED_WITNESS_BLOCK"
      [] OTHER -> "ValueError"

\* InvMessage.parse
InvMessage_parse(s) ==
    IF s = <<>> THEN DecodeError("IndexError")
    ELSE LET c == read_varint(s, 1)
         IN  Decoded([cls |-> "InvMessage", count |-> c.value,
                      inventory |-> [i \in 1..c.value |->
                                      InventoryVector_parse(s, c.next + 36 * (i - 1))]])

\* REJECT_CODE_NAMES
REJECT_CODE_NAMES ==
    [c \in {1, 16, 17, 18, 64, 65, 66, 67} |->
       CASE c = 1  -> "REJECT_MALFORMED"
         [] c = 16 -> "REJECT_INVALID"
         [] c = 17 -> "OBSOLETE"
         [] c = 18 -> "REJECT_DUPLICATE"
         [] c = 64 -> "REJECT_NONSTANDARD"
         [] c = 65 -> "REJECT_DUST"
         [] c = 66 -> "REJECT_INSUFFICIENT_FEE"
         [] c = 67 -> "REJECT_CHECKPOINT"]

\* RejectMessage.parse
RejectMessage_parse(s) ==
    IF s = <<>> THEN DecodeError("IndexError")
    ELSE LET ml == read_varint(s, 1)
             cpos == ml.next + ml.value
             code == little_endian_to_int(StreamRead(s, cpos, 1))
         IN  IF code \notin DOMAIN REJECT_CODE_NAMES THEN DecodeError("KeyError")
             ELSE IF Len(s) < cpos + 1 THEN DecodeError("IndexError")
             ELSE LET rl == read_varint(s, cpos + 1)
                  IN  Decoded([cls |-> "RejectMessage",
                               message |-> StreamRead(s, ml.next, ml.value),
                               ccode |-> REJECT_CODE_NAMES[code],
                               reason |-> StreamRead(s, rl.next, rl.value),
                               data |-> None])

\* GenericMessage
GenericMessage(cmd, payload) ==
    [cls |-> "GenericMessage", command |-> cmd, payload |-> payload]
GenericMessage_serialize(m) == m.payload

\* The outcomes of message.serialize(): the bytes, or the exception raised.
Encoded(b) == [error |-> "none", bytes |-> b]
EncodeError(e) == [error |-> e, bytes |-> <<>>]

\* message.serialize() by class.
serialize(m) ==
    CASE m.cls = "VersionMessage"    -> VersionMessage_serialize(m)
      [] m.cls = "VerAckMessage"     -> VerAckMessage_serialize(m)
      [] m.cls = "PingMessage"       -> PingMessage_serialize(m)
      [] m.cls = "PongMessage"       -> PongMessage_serialize(m)
      [] m.cls = "GetAddressMessage" -> GetAddressMessage_serialize(m)
      [] m.cls = "GetHeadersMessage" -> GetHeadersMessage_serialize(m)
      [] m.cls = "MempoolMessage"    -> MempoolMessage_serialize(m)
      [] m.cls = "GetDataMessage"    -> GetDataMessage_serialize(m)
      [] m.cls = "GenericMessage"    -> GenericMessage_serialize(m)

\* message.serialize() with its failures: AddressMessage, CmpctMessage,
\* InvMessage and RejectMessage raise NotImplementedError; HeadersMessage
\* and FeefilterMessage define no serialize at all.
try_serialize(m) ==
    IF m.cls \in {"AddressMessage", "CmpctMessage", "InvMessage", "RejectMessage"}
    THEN EncodeError("NotImplementedError")
    ELSE IF m.cls \in {"HeadersMessage", "FeefilterMessage"}
    THEN EncodeError("AttributeError")
    ELSE Encoded(serialize(m))

\* cls.parse(stream) by class, as wait_for calls it; a class without a
\* parse attribute raises AttributeError.
parse(cls, s) ==
    CASE cls = "VersionMessage"    -> VersionMessage_parse(s)
      [] cls = "VerAckMessage"     -> VerAckMessage_parse(s)
      [] cls = "PingMessage"       -> PingMessage_parse(s)
      [] cls = "PongMessage"       -> PongMessage_parse(s)
      [] cls = "AddressMessage"    -> AddressMessage_parse(s)
      [] cls = "HeadersMessage"    -> HeadersMessage_parse(s)
      [] cls = "FeefilterMessage"  -> FeefilterMessage_parse(s)
      [] cls = "GetAddressMessage" -> GetAddressMessage_parse(s)
      [] cls = "CmpctMessage"      -> CmpctMessage_parse(s)
      [] cls = "InvMessage"        -> InvMessage_parse(s)
      [] cls = "RejectMessage"     -> RejectMessage_parse(s)
      [] OTHER                     -> DecodeError("AttributeError")

(***************************************************************************)
(* State.                                                                  *)
(***************************************************************************)
VARIABLES
    \* ---- SimpleNode and the call in progress ----
    testnet,      \* self.testnet
    stream,       \* self.stream: cells delivered by the peer and not yet read
    pc,           \* position of the call in progress
    caller,       \* the method wait_for returns to
    kinds,        \* wait_for: the classes of command_to_class
    wf_command,   \* wait_for: the local `command`
    envelope,     \* wait_for: the local `envelope`
    headers,      \* getHeadersFromBlock: the local `headers`
    sb,           \* getHeadersFromBlock: the local `sb`
    got,          \* the value the last wait_for returned, until it is consumed
    result,       \* the value the last call returned, until the next call
    error,        \* the exception that ended the call, "none" if none
    \* ---- the scripted peer and the record of the connection ----
    peerNext,     \* number of the next header the peer serves
    reads,        \* read() calls made
    calls,        \* calls made by the application
    trace,        \* calls, frames read, frames written and returns, in order
    \* ---- the envelope codec applied to one frame ----
    cpc, cTestnet, cExpect, cCommand, cPayload, wire, tamper, decoded,
    rewire,       \* the decoded envelope serialized again
    \* ---- the message codecs applied to one message or one payload ----
    mpc, mIn, mOut, mBack, mShown

connVars == <<testnet, stream, pc, caller, kinds, wf_command, envelope, headers,
              sb, got, result, error, peerNext, reads, calls, trace>>
codecVars == <<cpc, cTestnet, cExpect, cCommand, cPayload, wire, tamper, decoded,
               rewire>>
msgVars == <<mpc, mIn, mOut, mBack, mShown>>
vars == <<connVars, codecVars, msgVars>>

NoMessage == [cls |-> "None"]

\* One bit of one cell inverted (pos is 1-based, bit 0 the lowest).
RECURSIVE Pow2(_)
Pow2(n) == IF n = 0 THEN 1 ELSE 2 * Pow2(n - 1)
FlipBit(b, pos, bit) ==
    [b EXCEPT ![pos] = IF (b[pos] \div Pow2(bit)) % 2 = 1
                       THEN b[pos] - Pow2(bit) ELSE b[pos] + Pow2(bit)]

(***************************************************************************)
(* The scripted peer.  Each read() is answered by one item of the menu: a  *)
(* well-formed frame, or a fault (the connection closed, a frame of the    *)
(* other network, a frame whose payload was damaged in transit).  Version, *)
(* ping, feefilter and sendcmpct frames arrive at any time; verack, addr,  *)
(* pong and headers frames arrive while the node waits for them (when it   *)
(* does not, wait_for treats them exactly as it treats a sendcmpct frame). *)
(* Headers are numbered in the order the peer serves them.                 *)
(***************************************************************************)
PingNonce == <<17, 34, 51, 68, 85, 102, 119, 136>>
PeerVersion == [VersionMessage(1) EXCEPT !.user_agent = <<47, 83, 47>>,
                                         !.latest_block = 7]
PeerAddrPayload == <<1>> \o int_to_little_endian(5, 4) \o int_to_little_endian(1, 8)
                        \o Zeros(10) \o <<255, 255, 10, 0, 0, 1>> \o <<71, 157>>

Item(kind, first, count) == [kind |-> kind, first |-> first, count |-> count]

HeaderItems(first) ==
    {Item("headers", first, n) : n \in {0, ShortBatch, HeadersCap}}

PeerMenu(awaited, first) ==
    {Item(k, 0, 0) : k \in {"version", "ping", "feefilter", "sendcmpct",
                            "closed", "wrongnet", "corrupt"}}
        \cup (IF "VerAckMessage" \in awaited THEN {Item("verack", 0, 0)} ELSE {})
        \cup (IF "AddressMessage" \in awaited THEN {Item("addr", 0, 0)} ELSE {})
        \cup (IF "PongMessage" \in awaited THEN {Item("pong", 0, 0)} ELSE {})
        \cup (IF "HeadersMessage" \in awaited THEN HeaderItems(first) ELSE {})

\* The headers payload: the count, then each header followed by a zero
\* transaction count.
PeerHeadersPayload(first, count) ==
    encode_varint(count)
        \o [i \in 1..(2 * count) |-> IF i % 2 = 1 THEN first + (i - 1) \div 2 ELSE 0]

\* The batch of headers such a payload carries.
Batch(item) == [i \in 1..item.count |-> item.first + i - 1]

ItemCommand(item) ==
    CASE item.kind = "version"   -> CmdVersion
      [] item.kind = "verack"    -> CmdVerAck
      [] item.kind = "pong"      -> CmdPong
      [] item.kind = "feefilter" -> CmdFeefilter
      [] item.kind = "addr"      -> CmdAddr
      [] item.kind = "headers"   -> CmdHeaders
      [] item.kind = "sendcmpct" -> CmdSendCmpct
      [] OTHER                   -> CmdPing

ItemPayload(item) ==
    CASE item.kind = "version"   -> VersionMessage_serialize(PeerVersion)
      [] item.kind = "verack"    -> <<>>
      [] item.kind = "feefilter" -> int_to_little_endian(1000, 8)
      [] item.kind = "addr"      -> PeerAddrPayload
      [] item.kind = "headers"   -> PeerHeadersPayload(item.first, item.count)
      [] item.kind = "sendcmpct" -> <<0>> \o int_to_little_endian(1, 8)
      [] OTHER                   -> PingNonce

\* The cells the peer puts on the stream for an item, for a node on `net`.
PeerBytes(item, net) ==
    LET framed(n) == NetworkEnvelope_serialize(
                        NetworkEnvelope(ItemCommand(item), ItemPayload(item), n))
    IN  CASE item.kind = "closed"   -> <<>>
          [] item.kind = "wrongnet" -> framed(~net)
          [] item.kind = "corrupt"  -> FlipBit(framed(net), 25, 0)
          [] OTHER                  -> framed(net)

IsFault(item) == item.kind \in {"closed", "wrongnet", "corrupt"}

(***************************************************************************)
(* Inputs of the application.                                              *)
(***************************************************************************)
Clock == {1700000000}
StartHashes == {BlockHash(0)}
WaitKinds == {{"PingMessage"}, {"PongMessage", "FeefilterMessage"}}

(***************************************************************************)
(* Events of the trace.                                                    *)
(***************************************************************************)
CallEvent(op, arg) == [ev |-> "call", op |-> op, arg |-> arg]
WaitEvent(classes) == [ev |-> "wait", kinds |-> classes]
InEvent(item) == [ev |-> "in", item |-> item]
MatchEvent(cls) == [ev |-> "match", cls |-> cls]
ReturnEvent(op) == [ev |-> "return", op |-> op]
RaiseEvent(e) == [ev |-> "raise", error |-> e]

\* SimpleNode.send(message): the envelope built and the bytes written.
send(message, net) ==
    LET env == NetworkEnvelope(command(message.cls), serialize(message), net)
    IN  [ev |-> "out", frame |-> env, bytes |-> NetworkEnvelope_serialize(env)]

\* read() that hands on whatever it framed, the checksum not verified.
read_Unverified(s, net) == NetworkEnvelope_parse_NoChecksum(s, net)

\* SimpleNode.read()
read(s, net) == NetworkEnvelope_parse(s, net)

\* The command compared with the classes instead of their commands: the
\* test never succeeds.
Requested_Never(ks, c) == FALSE

\* command in command_to_class.keys()
Requested(ks, c) == \E k \in ks : command(k) = c
\* The decoder taken from another of the classes given, when there is one.
ClassOf_Other(ks, c) ==
    CHOOSE k \in ks : (\E j \in ks : command(j) # c) => command(k) # c

\* command_to_class[command]
ClassOf(ks, c) == CHOOSE k \in ks : command(k) = c

(***************************************************************************)
(* Init: a connected node (SimpleNode.__init__), no call in progress.      *)
(***************************************************************************)
NoTamper == [kind |-> "none", pos |-> 0, bit |-> 0]

CodecIdle ==
    /\ cpc = "off" /\ cTestnet = FALSE /\ cExpect = FALSE
    /\ cCommand = <<>> /\ cPayload = <<>> /\ wire = <<>>
    /\ tamper = NoTamper /\ decoded = ParseError("none", 0)
    /\ rewire = <<>>

MsgIdle ==
    /\ mpc = "off" /\ mIn = [kind |-> "none"]
    /\ mOut = Encoded(<<>>) /\ mBack = Decoded(NoMessage) /\ mShown = <<>>

ConnInit ==
    /\ testnet \in BOOLEAN
    /\ stream = <<>>
    /\ pc = "idle" /\ caller = "none"
    /\ kinds = {} /\ wf_command = None /\ envelope = NoEnvelope
    /\ headers = <<>> /\ sb = <<>>
    /\ got = NoMessage /\ result = NoMessage /\ error = "none"
    /\ peerNext = 1 /\ reads = 0 /\ calls = 0 /\ trace = <<>>

Init == ConnInit /\ CodecIdle /\ MsgIdle

\* Entering wait_for(*message_classes) from `from`, after `events`.
EnterWaitFor(from, classes, events) ==
    /\ caller' = from
    /\ kinds' = classes
    /\ wf_command' = None
    /\ pc' = "wf_loop"
    /\ trace' = trace \o events \o <<WaitEvent(classes)>>

\* An exception leaves the call (nothing in network.py catches one).
Raise(e, events) ==
    /\ pc' = "raised"
    /\ error' = e
    /\ trace' = trace \o events \o <<RaiseEvent(e)>>

\* A call begins: the application has taken the last call's value.
BeginCall ==
    /\ pc = "idle" /\ calls < MaxCalls
    /\ calls' = calls + 1
    /\ result' = NoMessage

(***************************************************************************)
(* SimpleNode.handshake                                                    *)
(***************************************************************************)
Handshake ==
    /\ BeginCall
    /\ \E now \in Clock :
         EnterWaitFor("handshake", {"VerAckMessage", "VersionMessage"},
                      <<CallEvent("handshake", <<>>), send(VersionMessage(now), testnet)>>)
    /\ UNCHANGED <<testnet, stream, envelope, headers, sb, got, error, peerNext, reads>>
    /\ UNCHANGED <<codecVars, msgVars>>

(***************************************************************************)
(* SimpleNode.getAddressesFromHost                                         *)
(***************************************************************************)
GetAddressesFromHost ==
    /\ BeginCall
    /\ EnterWaitFor("getAddressesFromHost", {"AddressMessage"},
                    <<CallEvent("getAddressesFromHost", <<>>), send(GetAddressMessage, testnet)>>)
    /\ UNCHANGED <<testnet, stream, envelope, headers, sb, got, error, peerNext, reads>>
    /\ UNCHANGED <<codecVars, msgVars>>

(***************************************************************************)
(* SimpleNode.getHeadersFromBlock(sb), eb left at None                     *)
(***************************************************************************)
GetHeadersFromBlock ==
    /\ BeginCall
    /\ \E start \in StartHashes :
         /\ sb' = start
         /\ trace' = Append(trace, CallEvent("getHeadersFromBlock", start))
    /\ headers' = <<>>
    /\ caller' = "getHeadersFromBlock"
    /\ pc' = "gh_loop"
    /\ UNCHANGED <<testnet, stream, kinds, wf_command, envelope, got, error,
                   peerNext, reads>>
    /\ UNCHANGED <<codecVars, msgVars>>

\* The loop goes on whatever the count.
LoopContinues_Always(hs) == TRUE

\* while len(headers) % 2000 == 0
LoopContinues(hs) == Len(hs) % HeadersCap = 0

\* The loop test; then either the next request, or the return of headers
\* (the locals of the call are gone).
GetHeadersLoop ==
    /\ pc = "gh_loop"
    /\ IF LoopContinues(headers)
       THEN /\ EnterWaitFor("getHeadersFromBlock", {"HeadersMessage"},
                            <<send(GetHeadersMessage(sb, <<>>), testnet)>>)
            /\ UNCHANGED <<result, headers, sb>>
       ELSE /\ trace' = Append(trace, ReturnEvent("getHeadersFromBlock"))
            /\ result' = [cls |-> "list", blocks |-> headers]
            /\ pc' = "idle"
            /\ caller' = "none"
            /\ headers' = <<>> /\ sb' = <<>>
            /\ UNCHANGED <<kinds, wf_command>>
    /\ UNCHANGED <<testnet, stream, envelope, got, error, peerNext, reads, calls>>
    /\ UNCHANGED <<codecVars, msgVars>>

\* New headers put in front of the list.
Accumulate_Prepend(hs, blocks) == blocks \o hs

\* headers += self.wait_for(HeadersMessage).blocks
Accumulate(hs, blocks) == hs \o blocks

\* sb = headers[-1].hash()
NextStart(hs) == BlockHash(hs[Len(hs)])

\* headers += ...blocks; sb = headers[-1].hash()
GetHeadersAppend ==
    /\ pc = "gh_append"
    /\ headers' = Accumulate(headers, got.blocks)
    /\ got' = NoMessage
    /\ IF headers' = <<>>
       THEN /\ Raise("IndexError", <<>>)
            /\ UNCHANGED sb
       ELSE /\ sb' = NextStart(headers')
            /\ pc' = "gh_loop"
            /\ UNCHANGED <<error, trace>>
    /\ UNCHANGED <<testnet, stream, caller, kinds, wf_command, envelope, result,
                   peerNext, reads, calls>>
    /\ UNCHANGED <<codecVars, msgVars>>

(***************************************************************************)
(* SimpleNode.wait_for                                                     *)
(***************************************************************************)
WaitFor ==
    /\ BeginCall
    /\ \E classes \in WaitKinds :
         EnterWaitFor("wait_for", classes, <<CallEvent("wait_for", classes)>>)
    /\ UNCHANGED <<testnet, stream, envelope, headers, sb, got, error, peerNext, reads>>
    /\ UNCHANGED <<codecVars, msgVars>>

\* The loop test fails to end the loop: envelope = self.read(), which
\* blocks until the peer has delivered; command = envelope.command.
WaitForRead ==
    /\ pc = "wf_loop" /\ ~Requested(kinds, wf_command)
    /\ reads < MaxReads
    /\ \E item \in PeerMenu(kinds, peerNext) :
         LET arrived == stream \o PeerBytes(item, testnet)
             r == read(arrived, testnet)
         IN  /\ stream' = SubSeq(arrived, r.consumed + 1, Len(arrived))
             /\ peerNext' = peerNext + item.count
             /\ IF r.error # "none"
                THEN /\ Raise(r.error, <<InEvent(item)>>)
                     /\ UNCHANGED <<envelope, wf_command>>
                ELSE /\ envelope' = r.envelope
                     /\ wf_command' = r.envelope.command
                     /\ pc' = "wf_respond"
                     /\ trace' = Append(trace, InEvent(item))
                     /\ UNCHANGED error
    /\ reads' = reads + 1
    /\ UNCHANGED <<testnet, caller, kinds, headers, sb, got, result, calls>>
    /\ UNCHANGED <<codecVars, msgVars>>

\* A Pong that does not echo the Ping.
AutoResponse_ZeroPong(env) ==
    IF env.command = CmdVersion THEN <<VerAckMessage>>
    ELSE IF env.command = CmdPing THEN <<PongMessage(Zeros(8))>>
    ELSE <<>>

\* No VerAck for an inbound Version.
AutoResponse_NoVerAck(env) ==
    IF env.command = CmdPing THEN <<PongMessage(env.payload)>>
    ELSE <<>>

\* The Pong for an inbound Ping written twice.
AutoResponse_TwoPongs(env) ==
    IF env.command = CmdVersion THEN <<VerAckMessage>>
    ELSE IF env.command = CmdPing
         THEN <<PongMessage(env.payload), PongMessage(env.payload)>>
    ELSE <<>>

\* A Pong sent for an inbound Feefilter as well.
AutoResponse_FeefilterPong(env) ==
    IF env.command = CmdVersion THEN <<VerAckMessage>>
    ELSE IF env.command \in {CmdPing, CmdFeefilter} THEN <<PongMessage(env.payload)>>
    ELSE <<>>

\* The messages wait_for sends in answer to the envelope just read.
AutoResponse(env) ==
    IF env.command = CmdVersion THEN <<VerAckMessage>>
    ELSE IF env.command = CmdPing THEN <<PongMessage(env.payload)>>
    ELSE <<>>

WaitForRespond ==
    /\ pc = "wf_respond"
    /\ trace' = trace \o [i \in 1..Len(AutoResponse(envelope)) |->
                            send(AutoResponse(envelope)[i], testnet)]
    /\ pc' = "wf_loop"
    /\ UNCHANGED <<testnet, stream, caller, kinds, wf_command, envelope, headers, sb,
                   got, result, error, peerNext, reads, calls>>
    /\ UNCHANGED <<codecVars, msgVars>>

\* The loop test ends the loop:
\* return command_to_class[command].parse(envelope.stream())
\* and the caller goes on: handshake and getAddressesFromHost return None,
\* getHeadersFromBlock appends. The locals of wait_for are gone.
WaitForReturn ==
    /\ pc = "wf_loop" /\ Requested(kinds, wf_command)
    /\ LET cls == ClassOf(kinds, wf_command)
           r == parse(cls, envelope.payload)
       IN  IF r.error # "none"
           THEN /\ Raise(r.error, <<>>)
                /\ UNCHANGED <<got, caller>>
           ELSE /\ got' = r.message
                /\ IF caller = "getHeadersFromBlock"
                   THEN /\ pc' = "gh_append"
                        /\ trace' = Append(trace, MatchEvent(cls))
                        /\ UNCHANGED caller
                   ELSE /\ pc' = "idle"
                        /\ trace' = trace \o <<MatchEvent(cls), ReturnEvent(caller)>>
                        /\ caller' = "none"
                /\ UNCHANGED error
    /\ kinds' = {} /\ wf_command' = None /\ envelope' = NoEnvelope
    /\ UNCHANGED <<testnet, stream, headers, sb, result, peerNext, reads, calls>>
    /\ UNCHANGED <<codecVars, msgVars>>

Next ==
    \/ Handshake
    \/ GetAddressesFromHost
    \/ GetHeadersFromBlock
    \/ GetHeadersLoop
    \/ GetHeadersAppend
    \/ WaitFor
    \/ WaitForRead
    \/ WaitForRespond
    \/ WaitForReturn

Spec == Init /\ [][Next]_vars

(***************************************************************************)
(* The envelope codec on its own: one frame is encoded for a network,      *)
(* possibly damaged on the way (one bit inverted, or the stream cut short),*)
(* and decoded under an expected network.                                  *)
(***************************************************************************)
\* Commands given to NetworkEnvelope: three of the message classes, and
\* three of a GenericMessage: one of 12 bytes, one of 13 bytes, and one
\* holding a byte that is not ASCII.
Cmd12   == <<103, 101, 116, 99, 102, 104, 101, 97, 100, 101, 114, 115>>
CmdLong == Cmd12 \o <<50>>
CmdHigh == CmdPing \o <<255>>
CodecCommands == {CmdVerAck, CmdPing, CmdGetHeaders, Cmd12, CmdLong, CmdHigh}
PayloadBytes == {0, 1, 255}
Payloads == UNION {[1..n -> PayloadBytes] : n \in 0..MaxPayloadLen}

ConnIdle == ConnInit /\ testnet = FALSE

CodecInit ==
    /\ cpc = "input"
    /\ cTestnet \in BOOLEAN /\ cExpect \in BOOLEAN
    /\ cCommand \in CodecCommands /\ cPayload \in Payloads
    /\ wire = <<>> /\ tamper = NoTamper /\ decoded = ParseError("none", 0)
    /\ rewire = <<>>
    /\ ConnIdle /\ MsgIdle

\* NetworkEnvelope(command, payload, testnet).serialize()
CodecEncode ==
    /\ cpc = "input"
    /\ wire' = NetworkEnvelope_serialize(NetworkEnvelope(cCommand, cPayload, cTestnet))
    /\ cpc' = "framed"
    /\ UNCHANGED <<cTestnet, cExpect, cCommand, cPayload, tamper, decoded, rewire>>
    /\ UNCHANGED <<connVars, msgVars>>

\* One bit of the frame is inverted in transit (the top bit of the length
\* field is left alone: the length would leave the model's integers).
CodecFlip ==
    /\ cpc = "framed"
    /\ \E pos \in 1..Len(wire), bit \in 0..7 :
         /\ ~(pos = 20 /\ bit = 7)
         /\ wire' = FlipBit(wire, pos, bit)
         /\ tamper' = [kind |-> "flip", pos |-> pos, bit |-> bit]
    /\ cpc' = "tampered"
    /\ UNCHANGED <<cTestnet, cExpect, cCommand, cPayload, decoded, rewire>>
    /\ UNCHANGED <<connVars, msgVars>>

\* The peer closes the connection after k bytes of the frame (k = 0:
\* before the first byte).
CodecCut ==
    /\ cpc = "framed"
    /\ \E k \in 0..(Len(wire) - 1) :
         /\ wire' = SubSeq(wire, 1, k)
         /\ tamper' = [kind |-> "cut", pos |-> k, bit |-> 0]
    /\ cpc' = "tampered"
    /\ UNCHANGED <<cTestnet, cExpect, cCommand, cPayload, decoded, rewire>>
    /\ UNCHANGED <<connVars, msgVars>>

\* NetworkEnvelope.parse(stream, testnet=cExpect)
CodecDecode ==
    /\ cpc \in {"framed", "tampered"}
    /\ decoded' = NetworkEnvelope_parse(wire, cExpect)
    /\ cpc' = "decoded"
    /\ UNCHANGED <<cTestnet, cExpect, cCommand, cPayload, wire, tamper, rewire>>
    /\ UNCHANGED <<connVars, msgVars>>

\* envelope.serialize() on the envelope that parse returned.
CodecReencode ==
    /\ cpc = "decoded" /\ decoded.error = "none"
    /\ rewire' = NetworkEnvelope_serialize(decoded.envelope)
    /\ cpc' = "reencoded"
    /\ UNCHANGED <<cTestnet, cExpect, cCommand, cPayload, wire, tamper, decoded>>
    /\ UNCHANGED <<connVars, msgVars>>

CodecNext ==
    \/ CodecEncode
    \/ CodecFlip
    \/ CodecCut
    \/ CodecDecode
    \/ CodecReencode

CodecSpec == CodecInit /\ [][CodecNext]_vars

(***************************************************************************)
(* The message codecs on their own: a message is serialized and the bytes  *)
(* parsed back by its class, or a payload is parsed by a class and the     *)
(* inventory vectors of the result displayed.                              *)
(***************************************************************************)
UserAgents == {<<>>, <<47, 83, 47>>}
ReceiverIps == {Zeros(4), <<10, 0, 0, 1>>}
SenderIps == {Zeros(4), <<192, 168, 0, 2>>}
Ports == {18333, 8333}

Versions ==
    {[VersionMessage(now) EXCEPT !.user_agent = ua, !.relay = r,
                                 !.receiver_ip = rip, !.receiver_port = rp,
                                 !.sender_ip = sip] :
        now \in Clock, ua \in UserAgents, r \in BOOLEAN,
        rip \in ReceiverIps, rp \in Ports, sip \in SenderIps}

ReceiveOnlyMessages ==
    {[cls |-> "AddressMessage", count |-> 0, addr_list |-> <<>>],
     [cls |-> "HeadersMessage", blocks |-> <<>>],
     [cls |-> "FeefilterMessage", fee |-> 1000],
     [cls |-> "CmpctMessage", announce |-> 0, version |-> 1],
     [cls |-> "InvMessage", count |-> 0, inventory |-> <<>>],
     [cls |-> "RejectMessage", message |-> <<116, 120>>, ccode |-> "REJECT_DUST",
      reason |-> <<>>, data |-> None]}

SendOnlyMessages ==
    {GetHeadersMessage(BlockHash(0), <<>>), MempoolMessage,
     GetDataMessage(<<>>), GetDataMessage(<< <<2, BlockHash(5)>> >>),
     PongMessage(PingNonce)}

Messages ==
    Versions \cup ReceiveOnlyMessages \cup SendOnlyMessages
        \cup {VerAckMessage, GetAddressMessage, PingMessage(PingNonce),
              PingMessage(Zeros(8)), GenericMessage(CmdLong, <<1>>)}

\* The eight kinds InventoryVector.type_lookup names, and three it does not.
InvKinds == {0, 1, 2, 3, 4, 1073741825, 1073741826, 1073741827,
             5, 1073741828, 2147483647}
InvVector(k) == int_to_little_endian(k, 4) \o Reversed(BlockHash(9))
InvPayloads ==
    {<<1>> \o InvVector(k) : k \in InvKinds}
        \cup {<<2>> \o InvVector(1) \o InvVector(k) : k \in InvKinds}

Payloaded(cls, payload) == [kind |-> "payload", cls |-> cls, payload |-> payload]
PayloadInputs ==
    {Payloaded("InvMessage", b) : b \in InvPayloads}
        \cup {Payloaded(m.cls, serialize(m)) : m \in SendOnlyMessages}
        \cup {Payloaded("CmpctMessage", <<0>> \o int_to_little_endian(1, 8)),
              Payloaded("FeefilterMessage", int_to_little_endian(1000, 8)),
              Payloaded("AddressMessage", PeerAddrPayload),
              Payloaded("RejectMessage", <<2, 116, 120, 65, 0>>),
              Payloaded("RejectMessage", <<2, 116, 120, 2, 0>>)}

MsgInit ==
    /\ mpc = "input"
    /\ mIn \in {[kind |-> "message", msg |-> m] : m \in Messages} \cup PayloadInputs
    /\ mOut = Encoded(<<>>) /\ mBack = Decoded(NoMessage) /\ mShown = <<>>
    /\ ConnIdle /\ CodecIdle

\* message.serialize()
MsgSerialize ==
    /\ mpc = "input" /\ mIn.kind = "message"
    /\ mOut' = try_serialize(mIn.msg)
    /\ mpc' = "serialized"
    /\ UNCHANGED <<mIn, mBack, mShown>>
    /\ UNCHANGED <<connVars, codecVars>>

\* type(message).parse(BytesIO(message.serialize()))
MsgParseBack ==
    /\ mpc = "serialized" /\ mOut.error = "none"
    /\ mBack' = parse(mIn.msg.cls, mOut.bytes)
    /\ mpc' = "parsed"
    /\ UNCHANGED <<mIn, mOut, mShown>>
    /\ UNCHANGED <<connVars, codecVars>>

\* cls.parse(BytesIO(payload))
MsgParse ==
    /\ mpc = "input" /\ mIn.kind = "payload"
    /\ mBack' = parse(mIn.cls, mIn.payload)
    /\ mpc' = "parsed"
    /\ UNCHANGED <<mIn, mOut, mShown>>
    /\ UNCHANGED <<connVars, codecVars>>

\* repr(message) of a parsed InvMessage: type_lookup() of each vector.
MsgShow ==
    /\ mpc = "parsed" /\ mBack.error = "none" /\ mBack.message.cls = "InvMessage"
    /\ mShown' = [i \in 1..Len(mBack.message.inventory) |->
                    type_lookup(mBack.message.inventory[i])]
    /\ mpc' = "shown"
    /\ UNCHANGED <<mIn, mOut, mBack>>
    /\ UNCHANGED <<connVars, codecVars>>

MsgNext ==
    \/ MsgSerialize
    \/ MsgParseBack
    \/ MsgParse
    \/ MsgShow

MsgSpec == MsgInit /\ [][MsgNext]_vars

\* wait_for runs on: once a frame is read, its answer and the loop test that
\* follows are eventually executed. Reads wait for the peer and are not forced.
FairSpec ==
    Spec /\ WF_vars(WaitForRespond) /\ WF_vars(WaitForReturn)

(***************************************************************************)
(* Reading the trace.  A call's segment runs from its call event to the    *)
(* event before the next call event.                                       *)
(***************************************************************************)
IsCall(i, op) == trace[i].ev = "call" /\ trace[i].op = op
IsIn(i, kind) == trace[i].ev = "in" /\ trace[i].item.kind = kind
IsOut(i, cmd) == trace[i].ev = "out" /\ trace[i].frame.command = cmd
IsReturn(i) == trace[i].ev = "return"

SegEnd(c) ==
    LET later == {j \in (c + 1)..Len(trace) : trace[j].ev = "call"}
    IN  IF later = {} THEN Len(trace)
        ELSE (CHOOSE j \in later : \A k \in later : j <= k) - 1

Seg(c) == (c + 1)..SegEnd(c)
Ins(c) == {i \in Seg(c) : trace[i].ev = "in"}
Returned(c) == \E i \in Seg(c) : IsReturn(i)
FirstIn(c) == CHOOSE i \in Ins(c) : \A j \in Ins(c) : i <= j

\* The commands of the frames written during the call, in order.
OutCommands(c) ==
    LET outs == SelectSeq(SubSeq(trace, c + 1, SegEnd(c)), LAMBDA e : e.ev = "out")
    IN  [i \in 1..Len(outs) |-> outs[i].frame.command]

\* The headers of the frames read at positions lo..hi, in arrival order.
RECURSIVE Arrived(_, _)
Arrived(lo, hi) ==
    IF lo > hi THEN <<>>
    ELSE IF IsIn(hi, "headers") THEN Arrived(lo, hi - 1) \o Batch(trace[hi].item)
    ELSE Arrived(lo, hi - 1)

\* The start hash a GetHeaders frame carries.
StartHashOf(frame) == Reversed(SubSeq(frame.payload, 6, 37))

\* The nonce of a ping or pong payload (its first 8 bytes).
Nonce(payload) == StreamRead(payload, 1, 8)

\* The wait event a match at m answers, and the frames read in between.
WaitOf(m) == CHOOSE w \in 1..m : trace[w].ev = "wait"
                 /\ \A j \in (w + 1)..m : trace[j].ev # "wait"
ReadsOf(m) == {i \in WaitOf(m)..m : trace[i].ev = "in"}
LastOf(S) == CHOOSE i \in S : \A j \in S : j <= i

(***************************************************************************)
(* C1: when getHeadersFromBlock returns, it has sent as many GetHeaders    *)
(* requests as it read Headers batches (k+1 for k full batches and a last  *)
(* partial one), it returns the concatenation of the batches in arrival    *)
(* order, the first request carries the caller's start hash and every      *)
(* later request the hash of the last header accumulated before it.        *)
(***************************************************************************)
C1_HeaderSyncChained ==
    \A c \in 1..Len(trace) :
      (IsCall(c, "getHeadersFromBlock") /\ Returned(c)) =>
        LET reqs == {i \in Seg(c) : IsOut(i, CmdGetHeaders)}
            batches == {i \in Seg(c) : IsIn(i, "headers")}
        IN  /\ Cardinality(reqs) = Cardinality(batches)
            /\ (SegEnd(c) = Len(trace) =>
                  result = [cls |-> "list", blocks |-> Arrived(c, SegEnd(c))])
            /\ \A q \in reqs :
                 StartHashOf(trace[q].frame) =
                   IF Arrived(c, q) = <<>> THEN trace[c].arg
                   ELSE BlockHash(Arrived(c, q)[Len(Arrived(c, q))])

\* A full batch and then a short one: two requests, both batches returned.
C1_Witness ==
    /\ pc = "idle" /\ Len(trace) > 0
    /\ IsReturn(Len(trace)) /\ trace[Len(trace)].op = "getHeadersFromBlock"
    /\ result.cls = "list"
    /\ Len(result.blocks) = HeadersCap + ShortBatch
    /\ Cardinality({i \in 1..Len(trace) : IsOut(i, CmdGetHeaders)}) = 2

(***************************************************************************)
(* C2: in header sync, once a Headers response of fewer than 2000 headers  *)
(* has been read (an empty one included), the call sends no further        *)
(* GetHeaders request and does not fail: it returns what it accumulated.   *)
(***************************************************************************)
C2_ShortBatchEndsSync ==
    \A c \in 1..Len(trace) :
      IsCall(c, "getHeadersFromBlock") =>
        \A i \in Seg(c) :
          (IsIn(i, "headers") /\ trace[i].item.count < HeadersCap) =>
            \A j \in Seg(c) :
              j > i => ~IsOut(j, CmdGetHeaders) /\ trace[j].ev # "raise"

C4_HandshakeReadsVerAck ==
    \A c \in 1..Len(trace) :
      (IsCall(c, "handshake") /\ Returned(c)) =>
        /\ \E i \in Seg(c) : IsOut(i, CmdVersion)
        /\ \E i \in Seg(c) : IsIn(i, "verack")

(***************************************************************************)
(* C5: every Ping read by wait_for, requested or not, is answered by       *)
(* exactly one Pong carrying the Ping's nonce, written before the next     *)
(* read and before wait_for returns; no other Pong is ever written.        *)
(***************************************************************************)
C5_PingAnswered ==
    /\ \A i \in 1..Len(trace) :
         IsIn(i, "ping") =>
           \/ i = Len(trace) /\ pc = "wf_respond"
           \/ /\ i < Len(trace)
              /\ IsOut(i + 1, CmdPong)
              /\ Nonce(trace[i + 1].frame.payload) = Nonce(ItemPayload(trace[i].item))
              /\ Len(trace[i + 1].frame.payload) = 8
              /\ (i + 2 <= Len(trace) => trace[i + 2].ev # "out")
    /\ \A j \in 1..Len(trace) :
         IsOut(j, CmdPong) => j > 1 /\ IsIn(j - 1, "ping")

\* wait_for(PingMessage) has returned the Ping, its Pong written before.
C5_Witness ==
    /\ pc = "idle" /\ got.cls = "PingMessage"
    /\ \E i \in 1..Len(trace) :
         /\ IsIn(i, "ping") /\ i + 2 <= Len(trace)
         /\ IsOut(i + 1, CmdPong) /\ trace[i + 1].frame.payload = PingNonce
         /\ trace[i + 2].ev = "match"

(***************************************************************************)
(* C6: what wait_for returns is the decoding, by the decoder of a          *)
(* requested class, of the first frame read since the call began whose     *)
(* command is requested; every frame read before it is of a command that   *)
(* is not requested.                                                       *)
(***************************************************************************)
C6_FirstRequestedFrame ==
    \A m \in 1..Len(trace) :
      trace[m].ev = "match" =>
        LET asked == trace[WaitOf(m)].kinds
            last == LastOf(ReadsOf(m))
        IN  /\ ReadsOf(m) # {}
            /\ trace[m].cls \in asked
            /\ command(trace[m].cls) = ItemCommand(trace[last].item)
            /\ \A i \in ReadsOf(m) :
                 i < last => ~Requested(asked, ItemCommand(trace[i].item))
            /\ (got # NoMessage /\ \A j \in (m + 1)..Len(trace) : trace[j].ev # "match") =>
                 /\ got.cls = trace[m].cls
                 /\ Decoded(got) = parse(trace[m].cls, ItemPayload(trace[last].item))

\* A handshake has returned on a Version read after a non-requested frame.
C6_Witness ==
    /\ pc = "idle" /\ got.cls = "VersionMessage"
    /\ \E m \in 1..Len(trace) :
         /\ trace[m].ev = "match" /\ m = Len(trace) - 1
         /\ Cardinality(ReadsOf(m)) = 2

(***************************************************************************)
(* C7: wait_for has no bound of its own on the number of reads. A loop     *)
(* test that finds a non-requested command is always followed by another   *)
(* read; the loop is left only after a read that raised or that brought a  *)
(* frame of a requested kind; and once a frame of a requested kind that    *)
(* its decoder accepts has been read, wait_for returns.                    *)
(***************************************************************************)
InWaitFor == pc \in {"wf_loop", "wf_respond"}
Asked(ks, c) == c \in {command(k) : k \in ks}

C7_UnboundedWait ==
    /\ [][(pc = "wf_loop" /\ ~Asked(kinds, wf_command))
            => (pc' \in {"wf_respond", "raised"} /\ reads' = reads + 1)]_vars
    /\ [][(InWaitFor /\ pc' \in {"idle", "gh_append"})
            => (Asked(kinds, wf_command) /\ reads' = reads)]_vars
    /\ [][(InWaitFor /\ pc' = "raised")
            => (reads' = reads + 1 \/ Asked(kinds, wf_command))]_vars
    /\ ((pc = "wf_respond" /\ Asked(kinds, envelope.command)
           /\ parse(ClassOf(kinds, envelope.command), envelope.payload).error = "none")
          ~> (pc \in {"idle", "gh_append"}))

\* One wait_for call has used up every frame the peer delivers and waits on.
C7_Witness ==
    /\ pc = "wf_loop" /\ ~Asked(kinds, wf_command)
    /\ calls = 1 /\ caller = "wait_for" /\ reads = MaxReads

(***************************************************************************)
(* C8: a read that signals connection-closed, a framing error or a         *)
(* checksum error ends the call with that error at once: nothing is read   *)
(* or written after the failing frame, no VerAck or Pong answers it.       *)
(***************************************************************************)
FaultError(kind) ==
    CASE kind = "closed"   -> "Connection reset!"
      [] kind = "wrongnet" -> "magic is not right"
      [] kind = "corrupt"  -> "Bad Checksum!"

C8_FatalReadEndsCall ==
    /\ \A i \in 1..Len(trace) :
         (trace[i].ev = "in" /\ IsFault(trace[i].item)) =>
           /\ Len(trace) = i + 1
           /\ trace[i + 1].ev = "raise"
           /\ trace[i + 1].error = FaultError(trace[i].item.kind)
           /\ pc = "raised" /\ error = FaultError(trace[i].item.kind)
    /\ pc = "raised" => trace[Len(trace)].ev = "raise"
    /\ \A i \in 1..Len(trace) : trace[i].ev = "raise" => i = Len(trace)

\* Header sync has ended on a frame damaged in transit, after one batch.
C8_Witness ==
    /\ pc = "raised" /\ error = "Bad Checksum!"
    /\ caller = "getHeadersFromBlock" /\ headers # <<>>

\* Properties of the command given to the codec.
NonNull(c) == \A i \in 1..Len(c) : c[i] # 0
Ascii(c) == \A i \in 1..Len(c) : c[i] < 128

(***************************************************************************)
(* C9: a frame encoded for one network and decoded under the other is      *)
(* rejected with the framing error, in both directions; a stream that      *)
(* yields no byte at the first read is reported as connection-closed.      *)
(***************************************************************************)
C9_NetworkIdDiscrimination ==
    cpc = "decoded" =>
      /\ (tamper.kind = "none" /\ cTestnet # cExpect) =>
           (decoded.error = "magic is not right" /\ decoded.envelope = NoEnvelope)
      /\ (tamper.kind = "none" /\ cTestnet = cExpect) =>
           decoded.error # "magic is not right"
      /\ wire = <<>> => decoded.error = "Connection reset!"
      /\ decoded.error = "Connection reset!" => wire = <<>>

\* A test-network frame has been decoded under the main-network expectation.
C9_Witness ==
    /\ cpc = "decoded" /\ tamper.kind = "none"
    /\ cTestnet /\ ~cExpect
    /\ decoded.error = "magic is not right"

(***************************************************************************)
(* C10: a frame of an ASCII command of at most 12 bytes whose payload       *)
(* region had one bit inverted, the other fields untouched, decodes to     *)
(* the checksum error and no envelope; from any stream whatever, an        *)
(* envelope is returned only if the checksum field equals the first four   *)
(* bytes of the double hash of the payload read.                           *)
(***************************************************************************)
C10_EnvelopeIntegrity ==
    cpc = "decoded" =>
      /\ (/\ tamper.kind = "flip" /\ tamper.pos > 24 /\ cTestnet = cExpect
          /\ Len(cCommand) <= 12 /\ Ascii(cCommand)) =>
           (decoded.error = "Bad Checksum!" /\ decoded.envelope = NoEnvelope)
      /\ decoded.error = "none" =>
           /\ Len(wire) >= 24
           /\ SubSeq(wire, 21, 24) = SubSeq(hash256(decoded.envelope.payload), 1, 4)
           /\ decoded.envelope.payload = SubSeq(wire, 25, Len(wire))

\* A frame with a two-byte payload, its last bit inverted, has been decoded.
C10_Witness ==
    /\ cpc = "decoded" /\ tamper.kind = "flip"
    /\ tamper.pos = 26 /\ Len(cPayload) = 2
    /\ decoded.error = "Bad Checksum!"

(***************************************************************************)
(* C11 as stated: for every network, every command of 1 to 12 non-null     *)
(* bytes and every payload, the frame decoded under the same network gives *)
(* back that command and that payload, and the command field of the frame  *)
(* is the command followed by null bytes only.                             *)
(***************************************************************************)
RoundTrips ==
    /\ decoded.error = "none"
    /\ decoded.envelope.command = cCommand
    /\ decoded.envelope.payload = cPayload
    /\ SubSeq(wire, 5, 4 + Len(cCommand)) = cCommand
    /\ \A i \in (5 + Len(cCommand))..16 : wire[i] = 0

C11_EnvelopeRoundTrip ==
    (/\ cpc = "decoded" /\ tamper.kind = "none" /\ cTestnet = cExpect
     /\ Len(cCommand) \in 1..12 /\ NonNull(cCommand))
      => RoundTrips

(***************************************************************************)
(* C11 amended: the same round trip and padding, for every command of 1 to *)
(* 12 non-null ASCII bytes.                                                *)
(***************************************************************************)
C11_AsciiRoundTrip ==
    (/\ cpc = "decoded" /\ tamper.kind = "none" /\ cTestnet = cExpect
     /\ Len(cCommand) \in 1..12 /\ NonNull(cCommand) /\ Ascii(cCommand))
      => RoundTrips

\* A four-byte command with a two-byte payload went through the test network.
C11_Witness ==
    /\ cpc = "decoded" /\ tamper.kind = "none" /\ cTestnet /\ cExpect
    /\ cCommand = CmdPing /\ Len(cPayload) = 2
    /\ decoded.envelope.command = CmdPing
    /\ SubSeq(wire, 9, 16) = Zeros(8)

(***************************************************************************)
(* C17: the frame encoded for any command and payload, those of a          *)
(* GenericMessage included, has a command field of exactly 12 bytes: the   *)
(* frame is 24 + len(payload) bytes long and bytes 16..19 hold the length. *)
(***************************************************************************)
C17_FixedCommandField ==
    cpc = "framed" =>
      /\ Len(wire) = 24 + Len(cPayload)
      /\ SubSeq(wire, 17, 20) = int_to_little_endian(Len(cPayload), 4)

(***************************************************************************)
(* C20: the envelope decoded from an undamaged frame of a well-formed      *)
(* command, under the network it was encoded for, serializes back to the   *)
(* bytes of that frame, on the main network and on the test network.       *)
(***************************************************************************)
C20_ReencodeReproducesFrame ==
    (/\ cpc = "reencoded" /\ tamper.kind = "none" /\ cTestnet = cExpect
     /\ Len(cCommand) \in 1..12 /\ NonNull(cCommand) /\ Ascii(cCommand))
      => rewire = wire

(***************************************************************************)
(* C15: in header sync every GetHeaders request is written when the number *)
(* of headers accumulated is a multiple of 2000 (zero for the first), a    *)
(* response is awaited only at such a count, and once the count is not a   *)
(* multiple of 2000 the call writes and reads nothing more: it returns.    *)
(***************************************************************************)
C15_RequestsAtMultiplesOfCap ==
    /\ \A c \in 1..Len(trace) :
         IsCall(c, "getHeadersFromBlock") =>
           /\ \A q \in Seg(c) :
                IsOut(q, CmdGetHeaders) => Len(Arrived(c, q)) % HeadersCap = 0
           /\ \A i \in Seg(c) :
                (IsIn(i, "headers") /\ Len(Arrived(c, i)) % HeadersCap # 0) =>
                  /\ \A j \in Seg(c) : j > i => trace[j].ev \in {"match", "return"}
                  /\ (SegEnd(c) = Len(trace) =>
                        pc \in {"wf_respond", "wf_loop", "gh_append", "gh_loop", "idle"})
    /\ (caller = "getHeadersFromBlock" /\ pc \in {"wf_loop", "wf_respond"}) =>
         Len(headers) % HeadersCap = 0
    /\ (pc = "gh_loop" /\ Len(headers) % HeadersCap # 0) =>
         ENABLED GetHeadersLoop

\* The first and only response was a short batch and the call has returned.
C15_Witness ==
    /\ pc = "idle" /\ Len(trace) > 0
    /\ IsReturn(Len(trace)) /\ trace[Len(trace)].op = "getHeadersFromBlock"
    /\ result.cls = "list" /\ Len(result.blocks) = ShortBatch
    /\ Cardinality({i \in 1..Len(trace) : IsOut(i, CmdGetHeaders)}) = 1

(***************************************************************************)
(* C16: wait_for writes only in answer to a frame read: one VerAck after a *)
(* Version, one Pong after a Ping. After a Feefilter, or any other frame   *)
(* of a kind not requested, nothing is written and the next event of the   *)
(* connection is the next read.                                            *)
(***************************************************************************)
C16_WritesOnlyForVersionAndPing ==
    /\ \A i \in 1..Len(trace) :
         (trace[i].ev = "in" /\ ~IsFault(trace[i].item)) =>
           LET cmd == ItemCommand(trace[i].item)
               asked == trace[WaitOf(i)].kinds
           IN  /\ (i < Len(trace) /\ trace[i + 1].ev = "out") =>
                     \/ cmd = CmdVersion /\ IsOut(i + 1, CmdVerAck)
                     \/ cmd = CmdPing /\ IsOut(i + 1, CmdPong)
               /\ (i + 2 <= Len(trace) /\ trace[i + 1].ev = "out") =>
                     trace[i + 2].ev # "out"
               /\ (cmd \notin {CmdVersion, CmdPing} /\ ~Asked(asked, cmd)) =>
                     \/ i = Len(trace) /\ pc \in {"wf_respond", "wf_loop"}
                     \/ i < Len(trace) /\ trace[i + 1].ev = "in"
    /\ \A j \in 1..Len(trace) :
         (trace[j].ev = "out" /\ trace[j].frame.command \in {CmdVerAck, CmdPong}) =>
           j > 1 /\ trace[j - 1].ev = "in"

\* A Feefilter and then a SendCompact were read, nothing written in between.
C16_Witness ==
    \E i \in 1..(Len(trace) - 1) :
      /\ IsIn(i, "feefilter") /\ IsIn(i + 1, "sendcmpct")
      /\ pc = "wf_loop"

(***************************************************************************)
(* C19: whenever no call is in progress, the VerAck frames written so far  *)
(* on the connection are as many as the Version frames read, and the Pong  *)
(* frames written as many as the Ping frames read.                         *)
(***************************************************************************)
Count(P(_)) == Cardinality({i \in 1..Len(trace) : P(i)})

C19_AnswersBalanceReads ==
    pc \in {"idle", "raised"} =>
      /\ Count(LAMBDA i : IsOut(i, CmdVerAck)) = Count(LAMBDA i : IsIn(i, "version"))
      /\ Count(LAMBDA i : IsOut(i, CmdPong)) = Count(LAMBDA i : IsIn(i, "ping"))

\* A handshake has returned on the peer's Version read after a Ping.
C19_Witness ==
    /\ pc = "idle" /\ calls >= 1
    /\ Count(LAMBDA i : IsOut(i, CmdVerAck)) = 1
    /\ Count(LAMBDA i : IsOut(i, CmdPong)) = 1

\* The class of the input of the message codecs.
InCls == IF mIn.kind = "message" THEN mIn.msg.cls ELSE mIn.cls

(***************************************************************************)
(* C12: for Version, VerAck, Ping and GetAddress, parsing the serialized   *)
(* message succeeds and gives a message whose fields all equal those of    *)
(* the original, whatever the user-agent, the relay flag, the IPs and the  *)
(* ports of a Version.                                                     *)
(***************************************************************************)
C12_MessageRoundTrip ==
    (/\ mpc = "parsed" /\ mIn.kind = "message"
     /\ InCls \in {"VersionMessage", "VerAckMessage", "PingMessage",
                   "GetAddressMessage"})
      => /\ mBack.error = "none"
         /\ IF InCls = "VersionMessage"
            THEN LET m == mIn.msg
                     d == mBack.message
                 IN  /\ d.version = m.version /\ d.services = m.services
                     /\ d.timestamp = m.timestamp
                     /\ d.receiver_services = m.receiver_services
                     /\ d.sender_services = m.sender_services
                     /\ d.nonce = m.nonce /\ d.user_agent = m.user_agent
                     /\ d.latest_block = m.latest_block
                     /\ d.relay = m.relay
                     /\ d.receiver_ip = m.receiver_ip
                     /\ d.sender_ip = m.sender_ip
                     /\ d.receiver_port = m.receiver_port
                     /\ d.sender_port = m.sender_port
            ELSE mBack.message = mIn.msg

(***************************************************************************)
(* C13: an inventory vector of one of the eight defined kinds decodes to   *)
(* the category of that kind, and parsing an Inventory payload that holds  *)
(* a vector of any other kind fails: no message is returned.               *)
(***************************************************************************)
DefinedKinds == {0, 1, 2, 3, 4, 1073741825, 1073741826, 1073741827}
Category(k) ==
    CASE k = 0 -> "ERROR"
      [] k = 1 -> "MSG_TX"
      [] k = 2 -> "MSG_BLOCK"
      [] k = 3 -> "MSG_FILTERED_BLOCK"
      [] k = 4 -> "MSG_CMPCT_BLOCK"
      [] k = 1073741825 -> "MSG_WITNESS_TX"
      [] k = 1073741826 -> "MSG_WITNESS_BLOCK"
      [] k = 1073741827 -> "MSG_FILTERED_WITNESS_BLOCK"
KindsOf(payload) ==
    [i \in 1..payload[1] |->
       little_endian_to_int(SubSeq(payload, 2 + 36 * (i - 1), 5 + 36 * (i - 1)))]

C13_InventoryKindMapping ==
    (mIn.kind = "payload" /\ InCls = "InvMessage") =>
      LET ks == KindsOf(mIn.payload)
      IN  /\ mpc = "shown" =>
                \A i \in 1..Len(ks) :
                  ks[i] \in DefinedKinds => mShown[i] = Category(ks[i])
          /\ (mpc = "parsed" /\ \E i \in 1..Len(ks) : ks[i] \notin DefinedKinds) =>
                (mBack.error # "none" /\ mBack.message = NoMessage)

(***************************************************************************)
(* C14: serializing a receive-only message (Address, Headers, Feefilter,   *)
(* SendCompact, Inventory, Reject) and parsing for a send-only class       *)
(* (GetHeaders, GetData, Mempool, Pong) both end in NotImplementedError    *)
(* and in no other failure.                                                *)
(***************************************************************************)
ReceiveOnly == {"AddressMessage", "HeadersMessage", "FeefilterMessage",
                "CmpctMessage", "InvMessage", "RejectMessage"}
SendOnly == {"GetHeadersMessage", "GetDataMessage", "MempoolMessage", "PongMessage"}

C14_UnsupportedDirectionNotImplemented ==
    /\ (mpc = "serialized" /\ InCls \in ReceiveOnly) =>
         mOut.error = "NotImplementedError"
    /\ (mpc = "parsed" /\ mIn.kind = "payload" /\ InCls \in SendOnly) =>
         mBack.error = "NotImplementedError"

(***************************************************************************)
(* C18: the serialized Version ends with a relay flag of one byte, 1 when  *)
(* relay is set and 0 when it is not: with a user-agent of n < 253 bytes   *)
(* the payload is 86 + n bytes long in both cases.                         *)
(***************************************************************************)
C18_RelayFlagOneByte ==
    (mpc = "serialized" /\ InCls = "VersionMessage") =>
      /\ mOut.error = "none"
      /\ Len(mOut.bytes) = 86 + Len(mIn.msg.user_agent)
      /\ mOut.bytes[Len(mOut.bytes)] = (IF mIn.msg.relay THEN 1 ELSE 0)

====
